---- MODULE Spec2Model ----
(***************************************************************************)
(* Model of the periodic-return service: the NAV fetcher and the return    *)
(* calculator of periodic_return.py, and the /api/periodic_returns and     *)
(* /api/precompute_all handlers of periodic_api.py over database.py.       *)
(*                                                                         *)
(* Dates are day numbers (integers); NAVs are integers (smallest currency  *)
(* unit).  A DataFrame indexed by date is a sequence of [date, nav] rows.  *)
(***************************************************************************)
EXTENDS Integers, Sequences, FiniteSets, TLC

VARIABLES
    response,   \* fetch: what the price provider answers to requests.get
    fetched,    \* fetch: outcome of fetch_nav_history
    df,         \* returns: the series handed to calculate_periodic_returns
    results,    \* returns: outcome of calculate_periodic_returns
    codes,      \* batch: schemes_df["schemeCode"].dropna().unique().tolist()
    provider,   \* batch/api: what the provider holds for each code
    cursor,     \* batch: the start the client sends with its next call
    summary,    \* batch: the response of the last precompute_all call
    log,        \* api: the calls a request made to the provider and the database
    covered,    \* batch: per code index, how many calls had it in their slice
    db,         \* batch/api: DB_AVAILABLE and the state of the connection
    table,      \* api: rows of fund_returns, by scheme_code
    reply,      \* api: the response of the last /api/periodic_returns request
    history,    \* api: per code, the sources of the replies so far and fetch count
    sip,        \* sip: the arguments (nav_df, start_date, end_date) of simulate_sip
    sim,        \* sip: outcome of simulate_sip
    flows,      \* xirr: the arguments (cashflows, dates) of xirr
    irr,        \* xirr: the locals of xirr (rate, loop counter) and its outcome
    schemes,    \* stats: the rows of schemes_df
    filter_cache, \* stats: rows of filter_cache, by type
    answer      \* stats: the last /api/stats or /api/precache_filters exchange

vars == <<response, fetched, df, results, codes, provider, cursor, summary,
          log, covered, db, table, reply, history, sip, sim,
          flows, irr, schemes, filter_cache, answer>>

fetchVars == <<response, fetched>>
returnVars == <<df, results>>
batchVars == <<codes, provider, cursor, summary, covered, db>>
apiVars == <<table, reply, history, log>>
sipVars == <<sip, sim>>
xirrVars == <<flows, irr>>
statsVars == <<schemes, filter_cache, answer>>

(***************************************************************************)
(* Bounds of the model.                                                    *)
(***************************************************************************)
MaxRaw == 3         \* entries in a provider reply
MaxPoints == 370    \* rows of a series handed to calculate_periodic_returns
MaxCodes == 12      \* scheme codes in the dataset
MaxBatch == 12      \* the largest batch query parameter a client sends
MaxApiCodes == 2    \* scheme codes requested from /api/periodic_returns
MaxRequests == 3    \* requests to /api/periodic_returns in one run

(***************************************************************************)
(* Values shared by the components.                                        *)
(***************************************************************************)
\* Python's None, where a function returns a value or None
None == [st |-> "none"]

\* a DataFrame with the given rows
Frame(rows) == [st |-> "df", rows |-> rows]

\* what an idle component holds in a specification that does not run it
Idle == [st |-> "idle"]

Max(a, b) == IF a >= b THEN a ELSE b
Min(a, b) == IF a <= b THEN a ELSE b

(***************************************************************************)
(* fetch_nav_history                                                       *)
(***************************************************************************)
\* a raw "date" field: a string in day-month-year form, a string in another
\* form, or no such key in the entry
RawDates ==
    {[fmt |-> "dmy", day |-> d] : d \in {1, 2}}
        \cup {[fmt |-> "other", day |-> 1], [fmt |-> "absent", day |-> 0]}

\* a raw "nav" field: a numeric string, a non-numeric string, or no such key
RawNavs ==
    {[kind |-> "num", val |-> v] : v \in {-2, 0, 5, 7}}
        \cup {[kind |-> "text", val |-> 0], [kind |-> "absent", val |-> 0]}

RawEntries == [date : RawDates, nav : RawNavs]

RawLists == UNION {[1..n -> RawEntries] : n \in 0..MaxRaw}

\* the provider's answer: a transport failure, or a status with a body
Responses ==
    {[kind |-> k, status |-> 0, hasData |-> FALSE, data |-> <<>>] :
        k \in {"timeout", "connection_error"}}
    \cup {[kind |-> "http", status |-> 404, hasData |-> FALSE, data |-> <<>>],
          [kind |-> "http", status |-> 200, hasData |-> FALSE, data |-> <<>>],
          [kind |-> "bad_json", status |-> 200, hasData |-> FALSE, data |-> <<>>]}
    \cup {[kind |-> "http", status |-> 200, hasData |-> TRUE, data |-> d] :
            d \in RawLists}

\* a parsed cell: na is NaT / NaN
NA == [na |-> TRUE, v |-> 0]

\* pd.to_datetime(format="%d-%m-%Y", errors="coerce")
to_datetime(x) == IF x.fmt = "dmy" THEN [na |-> FALSE, v |-> x.day] ELSE NA

\* pd.to_numeric(errors="coerce")
to_numeric(x) == IF x.kind = "num" THEN [na |-> FALSE, v |-> x.val] ELSE NA

\* pd.DataFrame(nav_data) has a column for every key some entry carries
HasColumn(data, col) ==
    \E i \in 1..Len(data) :
        IF col = "date" THEN data[i].date.fmt # "absent"
        ELSE data[i].nav.kind # "absent"

\* the parsed frame: one row per entry
ParseFrame(data) ==
    [i \in 1..Len(data) |->
        [date |-> to_datetime(data[i].date), nav |-> to_numeric(data[i].nav),
         pos |-> i]]

\* df.dropna(subset=["date", "nav"]), cells unwrapped
dropna(frame) ==
    LET kept == SelectSeq(frame, LAMBDA r : ~r.date.na /\ ~r.nav.na)
    IN  [i \in 1..Len(kept) |->
            [date |-> kept[i].date.v, nav |-> kept[i].nav.v, pos |-> kept[i].pos]]

RECURSIVE SortOrders(_, _)
\* df.sort_values("date") with the default, unstable sort: every arrangement
\* of the rows (by index set S) that is ascending by date
SortOrders(frame, S) ==
    IF S = {} THEN {<<>>}
    ELSE UNION {{<<frame[i]>> \o t : t \in SortOrders(frame, S \ {i})} :
                    i \in {j \in S : \A k \in S : frame[j].date <= frame[k].date}}

sort_values(frame) == SortOrders(frame, 1..Len(frame))

\* the filter with the comparison slipped to >=
PositiveNav_orZero(frame) == SelectSeq(frame, LAMBDA r : r.nav >= 0)

\* df[df["nav"] > 0]
PositiveNav(frame) == SelectSeq(frame, LAMBDA r : r.nav > 0)

\* an except clause that lets the error escape to the caller
Absorb_reraise(exc) == [st |-> "raise", exc |-> exc]

\* the except clauses of fetch_nav_history (RequestException, ValueError,
\* Exception): each prints and returns (None, None)
Absorb(exc) == None

\* the outcomes of fetch_nav_history for one provider answer
fetch_nav_history(resp) ==
    IF resp.kind \in {"timeout", "connection_error"}
    THEN {Absorb("RequestException")}
    ELSE IF resp.status # 200 THEN {None}
    ELSE IF resp.kind = "bad_json" THEN {Absorb("ValueError")}
    ELSE IF ~resp.hasData \/ resp.data = <<>> THEN {None}
    ELSE IF ~HasColumn(resp.data, "date") \/ ~HasColumn(resp.data, "nav")
         THEN {Absorb("KeyError")}
    ELSE LET clean == dropna(ParseFrame(resp.data))
         IN  IF clean = <<>> THEN {None}
             ELSE {IF PositiveNav(s) = <<>> THEN None ELSE Frame(PositiveNav(s)) :
                      s \in sort_values(clean)}

IdleFetch == response = Idle /\ fetched = Idle
IdleReturns == df = Idle /\ results = Idle
IdleBatch ==
    /\ codes = Idle /\ provider = Idle /\ cursor = Idle
    /\ summary = Idle /\ covered = Idle /\ db = Idle
IdleApi == table = Idle /\ reply = Idle /\ history = Idle /\ log = Idle
IdleSip == sip = Idle /\ sim = Idle
IdleXirr == flows = Idle /\ irr = Idle
IdleStats == schemes = Idle /\ filter_cache = Idle /\ answer = Idle

InitFetch ==
    /\ response \in Responses
    /\ fetched = Idle
    /\ IdleReturns /\ IdleBatch /\ IdleApi /\ IdleSip /\ IdleXirr
    /\ IdleStats

FetchNavHistory ==
    /\ fetched = Idle
    /\ fetched' \in fetch_nav_history(response)
    /\ UNCHANGED <<response, returnVars, batchVars, apiVars, sipVars, xirrVars, statsVars>>

NextFetch == FetchNavHistory

SpecFetch == InitFetch /\ [][NextFetch]_vars

\* a raw entry with a parsable date and a numeric, strictly positive price
Usable(e) == e.date.fmt = "dmy" /\ e.nav.kind = "num" /\ e.nav.val > 0

UsablePositions(data) == {i \in 1..Len(data) : Usable(data[i])}

Returned == fetched.st = "df"

\* C9: every series returned by fetch_nav_history has strictly increasing
\* dates, no date occurring twice; of two raw entries with the same date only
\* the later-listed one remains.
C9_StrictlyIncreasingDates ==
    Returned =>
        /\ \A i, j \in 1..Len(fetched.rows) :
               i < j => fetched.rows[i].date < fetched.rows[j].date
        /\ \A i \in 1..Len(fetched.rows) :
               ~\E k \in UsablePositions(response.data) :
                   /\ k > fetched.rows[i].pos
                   /\ to_datetime(response.data[k].date).v = fetched.rows[i].date

\* C11: fetch_nav_history never propagates an error: on a non-200 status, a
\* timeout or other network error, an undecodable body, a missing or empty
\* data list, or a history that is empty after cleaning, it returns the
\* no-data outcome (None, None).
C11_ErrorsBecomeNoData ==
    fetched.st # "idle" =>
        /\ fetched.st \in {"df", "none"}
        /\ (\/ response.kind \in {"timeout", "connection_error", "bad_json"}
            \/ response.status # 200
            \/ ~response.hasData
            \/ response.data = <<>>
            \/ UsablePositions(response.data) = {}) => fetched = None

\* the request timed out and the call returned the no-data outcome
C11_Witness == fetched = None /\ response.kind = "timeout"

\* C10: every series returned by fetch_nav_history is non-empty and holds
\* only prices > 0; entries with a non-positive, non-numeric or missing price
\* or an unparsable date are dropped, the usable entries are all kept, and
\* the call ends with a series exactly when some entry is usable.
C10_PositivePricesOnly ==
    /\ fetched.st # "idle" => fetched.st \in {"df", "none"}
    /\ Returned =>
        /\ fetched.rows # <<>>
        /\ \A i \in 1..Len(fetched.rows) : fetched.rows[i].nav > 0
        /\ {fetched.rows[i].pos : i \in 1..Len(fetched.rows)}
              = UsablePositions(response.data)
        /\ Len(fetched.rows) = Cardinality(UsablePositions(response.data))
    /\ (fetched.st = "none" /\ response.hasData) =>
          UsablePositions(response.data) = {}

\* a series was returned from a reply that also held an entry with a
\* non-positive price, one with a non-numeric price and one with a bad date
C10_Witness ==
    /\ Returned
    /\ \E i \in 1..Len(response.data) :
          response.data[i].nav.kind = "num" /\ response.data[i].nav.val <= 0
    /\ \E i \in 1..Len(response.data) :
          response.data[i].nav.kind # "num" \/ response.data[i].date.fmt # "dmy"

(***************************************************************************)
(* calculate_periodic_returns                                              *)
(***************************************************************************)
\* PERIODS: the horizon table, label -> lookback days
PERIODS ==
    [h \in {"1M", "3M", "6M", "1Y", "3Y", "5Y", "7Y", "10Y"} |->
        CASE h = "1M" -> 30
          [] h = "3M" -> 90
          [] h = "6M" -> 180
          [] h = "1Y" -> 365
          [] h = "3Y" -> 365 * 3
          [] h = "5Y" -> 365 * 5
          [] h = "7Y" -> 365 * 7
          [] h = "10Y" -> 365 * 10]

\* the horizons the loop of calculate_periodic_returns walks
YearsList == {1, 3, 5, 10}

\* f"{years}Y"
YearLabel(years) ==
    CASE years = 1 -> "1Y"
      [] years = 3 -> "3Y"
      [] years = 5 -> "5Y"
      [] years = 10 -> "10Y"

\* a gate that lets half-empty windows through
MinObservations_low == 200 - 100

\* the minimum number of observations in the lookback window
MinObservations == 200

\* df[df.index >= start_date_candidate]
DateRange(rows, candidate) == SelectSeq(rows, LAMBDA r : r.date >= candidate)

\* an exception leaving a block
Raised(exc) == [st |-> "raise", exc |-> exc]

\* a growth computed from the last price towards the start price
Growth_inverted(start_nav, end_nav, days) ==
    [st |-> "num", start_nav |-> end_nav, end_nav |-> start_nav, days |-> days]

\* ((end_nav / start_nav) ** (1 / years) - 1) * 100 with years = days / 365.0:
\* a real power, kept as the three numbers that determine it
Growth(start_nav, end_nav, days) ==
    [st |-> "num", start_nav |-> start_nav, end_nav |-> end_nav, days |-> days]

\* the sign of a growth: (end_nav / start_nav) ** (1 / years) - 1 with
\* years > 0 has the sign of end_nav - start_nav
Sign(v) ==
    IF v.end_nav > v.start_nav THEN 1
    ELSE IF v.end_nav = v.start_nav THEN 0 ELSE 0 - 1

\* the body of safe_cagr's try block: the growth between the start row and
\* the last row, None, or an exception
SafeCagrBody(rows, start_date_index) ==
    LET at == SelectSeq(rows, LAMBDA r : r.date = start_date_index)
        end_date == rows[Len(rows)].date
        end_nav == rows[Len(rows)].nav
    IN  IF Len(at) # 1
        THEN Raised("TypeError")    \* float() of a multi-row selection
        ELSE IF at[1].nav <= 0 \/ end_nav <= 0 THEN None
        ELSE IF end_date - start_date_index <= 0 THEN None
        ELSE Growth(at[1].nav, end_nav, end_date - start_date_index)

\* a helper without its except clause
InnerExcept_reraise(r) == r

\* `except Exception: return None` of safe_cagr
InnerExcept(r) == IF r.st = "raise" THEN None ELSE r

\* safe_cagr(start_date_index)
safe_cagr(rows, start_date_index) ==
    InnerExcept(SafeCagrBody(rows, start_date_index))

\* a gate that asks for 200 observations per year of the horizon
Required_perYear(years) == MinObservations * years

\* the observations a horizon needs: 200 whatever the horizon (line 212)
Required(years) == MinObservations

\* one pass of the loop body: None when the horizon is skipped
HorizonValue(rows, years) ==
    LET end_date == rows[Len(rows)].date
        df_range == DateRange(rows, end_date - years * 365)
    IN  IF df_range = <<>> THEN None
        ELSE IF Len(df_range) < Required(years) THEN None
        ELSE safe_cagr(rows, df_range[1].date)

\* the try block of calculate_periodic_returns with its loop walking the
\* given horizons: the mapping, with a key only for the horizons that got a
\* value, or the exception that left the block
TryBody(d, horizons) ==
    IF d.st # "df" \/ d.rows = <<>> THEN [st |-> "dict", map |-> <<>>]
    ELSE IF "nav" \notin DOMAIN d.rows[Len(d.rows)] THEN Raised("KeyError")
    ELSE IF \E y \in horizons : HorizonValue(d.rows, y).st = "raise"
         THEN Raised("TypeError")
    ELSE LET got == {y \in horizons : HorizonValue(d.rows, y) # None}
         IN  [st |-> "dict",
              map |-> [h \in {YearLabel(y) : y \in got} |->
                         HorizonValue(d.rows,
                             CHOOSE y \in got : YearLabel(y) = h)]]

\* a function without its except clause
OuterExcept_reraise(r) == r

\* `except Exception as e: ... return {}` of calculate_periodic_returns
OuterExcept(r) == IF r.st = "raise" THEN [st |-> "dict", map |-> <<>>] ELSE r

\* calculate_periodic_returns(df)
calculate_periodic_returns(d) == OuterExcept(TryBody(d, YearsList))

\* the spacings, in days, between successive rows of a generated series
Gaps == {1, 2, 6, 18}

\* the price of row i of a generated series
ShapeNav(shape, i) ==
    CASE shape = "flat" -> 100
      [] shape = "rising" -> 100 + i
      [] shape = "falling" -> 1000 - i

\* a series as fetch_nav_history returns it: ascending dates, prices > 0,
\* and, since nothing removes duplicates, possibly its first date twice
SeriesOf(n, gap, shape, dup) ==
    Frame([i \in 1..n |->
            [date |-> IF dup THEN Max(0, i - 2) * gap ELSE (i - 1) * gap,
             nav |-> ShapeNav(shape, i)]])

\* a frame that is not a NAV history: it has no "nav" column
NoNavFrame == Frame(<<[date |-> 0]>>)

InitReturns ==
    /\ df \in {None, NoNavFrame} \cup
            {SeriesOf(n, gap, shape, dup) :
                n \in 0..MaxPoints, gap \in Gaps,
                shape \in {"flat", "rising", "falling"}, dup \in BOOLEAN}
    /\ results = Idle
    /\ IdleFetch /\ IdleBatch /\ IdleApi /\ IdleSip /\ IdleXirr
    /\ IdleStats

CalculatePeriodicReturns ==
    /\ results = Idle
    /\ results' = calculate_periodic_returns(df)
    /\ UNCHANGED <<df, fetchVars, batchVars, apiVars, sipVars, xirrVars, statsVars>>

NextReturns == CalculatePeriodicReturns

SpecReturns == InitReturns /\ [][NextReturns]_vars

Computed == results.st = "dict" /\ df.st = "df" /\ df.rows # <<>>

FirstDate == df.rows[1].date
LastDate == df.rows[Len(df.rows)].date

\* the horizon h carries a numeric value in the returned mapping
Reported(h) == h \in DOMAIN results.map /\ results.map[h].st = "num"

\* C1: for a non-empty series the returned mapping has a key for every
\* horizon label of PERIODS (a horizon without a value is present as None).
C1_CompleteMapping == Computed => DOMAIN results.map = DOMAIN PERIODS

\* C2: a horizon whose lookback start (last date - lookback days) is earlier
\* than the first date of the series is reported without a numeric value.
C2_NoValueBeforeFirstDate ==
    Computed =>
        \A h \in DOMAIN PERIODS :
            LastDate - PERIODS[h] < FirstDate => ~Reported(h)

\* the series is a NAV history: it has rows and a nav column
WellFormed == Computed /\ "nav" \in DOMAIN df.rows[1]

\* the horizon of `years` years gets past the observation gate and its
\* growth computation ends in an exception
Fails(rows, years) ==
    LET df_range == DateRange(rows, rows[Len(rows)].date - years * 365)
    IN  /\ Len(df_range) >= MinObservations
        /\ SafeCagrBody(rows, df_range[1].date).st = "raise"

\* C12: calculate_periodic_returns never raises: whatever the input (None,
\* an empty series, a frame that is no NAV history, a series on which a
\* horizon's computation fails) the outcome is a mapping, and the mapping is
\* empty for None and for an empty series.
C12_NeverRaises ==
    results.st # "idle" =>
        /\ results.st = "dict"
        /\ (df = None \/ df.rows = <<>>) => results.map = <<>>

C12_Witness ==
    /\ results.st = "dict"
    /\ \/ df = NoNavFrame
       \/ WellFormed /\ \E y \in YearsList : Fails(df.rows, y)

\* the entry of a mapping for a label, None when the label is absent
ValueIn(r, h) == IF h \in DOMAIN r.map THEN r.map[h] ELSE None

\* C13: the horizons are independent: when a horizon has no value (its
\* computation failed or it was infeasible), every other horizon is reported
\* exactly as by the calculation that leaves that horizon out of the loop.
C13_HorizonsIndependent ==
    WellFormed =>
        \A y \in YearsList :
            ~Reported(YearLabel(y)) =>
                \A z \in YearsList \ {y} :
                    ValueIn(results, YearLabel(z)) =
                        ValueIn(OuterExcept(TryBody(df, YearsList \ {y})),
                                YearLabel(z))

C13_Witness ==
    /\ WellFormed
    /\ Fails(df.rows, 10)
    /\ ~Reported("10Y")
    /\ Reported("5Y")

\* the number of rows dated on or after (last date - lookback)
InWindow(rows, lookback) ==
    Len(DateRange(rows, rows[Len(rows)].date - lookback))

\* C14: a horizon is reported with a numeric value only if at least 200 rows
\* of the series are dated on or after (last date - lookback days of the
\* horizon); with fewer than 200 such rows the horizon has no value.
C14_MinimumObservations ==
    WellFormed =>
        \A h \in DOMAIN PERIODS :
            Reported(h) => InWindow(df.rows, PERIODS[h]) >= 200

C14_Witness ==
    /\ WellFormed
    /\ Reported("1Y")
    /\ InWindow(df.rows, PERIODS["1Y"]) = 200

\* the rows are in date order and each price is above the one before
StrictlyRising(rows) ==
    \A i \in 1..(Len(rows) - 1) :
        rows[i].date <= rows[i + 1].date /\ rows[i].nav < rows[i + 1].nav

\* C15: on a series whose prices strictly increase with date, every value
\* reported for a horizon is greater than or equal to 0.
C15_RisingNeverNegative ==
    (WellFormed /\ StrictlyRising(df.rows)) =>
        \A h \in DOMAIN PERIODS :
            Reported(h) => Sign(results.map[h]) >= 0

C15_Witness ==
    /\ WellFormed
    /\ StrictlyRising(df.rows)
    /\ Reported("1Y")
    /\ Sign(results.map["1Y"]) = 1

\* the dates strictly increase and every price is positive
StrictDatesPositive(rows) ==
    /\ \A i \in 1..(Len(rows) - 1) : rows[i].date < rows[i + 1].date
    /\ \A i \in 1..Len(rows) : rows[i].nav > 0

\* C28: on a series with strictly increasing dates and positive prices the
\* reported horizons are upward closed: when a horizon has a value, every
\* longer horizon has one too, computed from a start date that is not later
\* (its span of days up to the last date is not shorter).
C28_UpwardClosed ==
    (WellFormed /\ StrictDatesPositive(df.rows)) =>
        \A y \in YearsList : \A z \in YearsList :
            (y < z /\ Reported(YearLabel(y))) =>
                /\ Reported(YearLabel(z))
                /\ results.map[YearLabel(z)].days
                       >= results.map[YearLabel(y)].days

C28_Witness ==
    /\ WellFormed
    /\ StrictDatesPositive(df.rows)
    /\ Reported("1Y")
    /\ Reported("10Y")
    /\ results.map["10Y"].days > results.map["1Y"].days

\* the series with every price from row k onward divided by 2
HalveFrom(d, k) ==
    Frame([i \in 1..Len(d.rows) |->
              [date |-> d.rows[i].date,
               nav |-> IF i >= k THEN d.rows[i].nav \div 2 ELSE d.rows[i].nav]])

\* every price of the series can be halved exactly
AllEven(rows) == \A i \in 1..Len(rows) : rows[i].nav % 2 = 0

\* the rows at which a split is placed: the second, the middle and the last
SplitPoints(rows) ==
    {k \in {2, Len(rows) \div 2 + 1, Len(rows)} : k >= 2 /\ k <= Len(rows)}

\* two growths are the same number: same span and same price ratio
SameGrowth(v, w) ==
    /\ v.st = w.st
    /\ v.st = "num" =>
           /\ v.days = w.days
           /\ v.end_nav * w.start_nav = w.end_nav * v.start_nav

\* two mappings report the same return for every horizon
SameReturns(r, q) ==
    /\ DOMAIN r.map = DOMAIN q.map
    /\ \A h \in DOMAIN r.map : SameGrowth(r.map[h], q.map[h])

\* C16: split compensation: the series obtained from a continuous series by
\* dividing every price from some row onward by 2 gets the same return for
\* every horizon as the continuous series.
C16_SplitCompensated ==
    (WellFormed /\ AllEven(df.rows)) =>
        \A k \in SplitPoints(df.rows) :
            SameReturns(results, calculate_periodic_returns(HalveFrom(df, k)))

(***************************************************************************)
(* periodic_return.py: simulate_sip                                        *)
(*                                                                         *)
(* Dates are day numbers; every datetime the program hands to simulate_sip *)
(* is a midnight of the series index (main, lines 254-257).  Day 0 is the  *)
(* first day of the first month of MonthLengths.                           *)
(***************************************************************************)
SIP_AMOUNT == 10000
SIP_DAY == 1

\* the longest series handed to simulate_sip
MaxSipRows == 3

\* the calendar the windows lie in: January to May of a leap year
MonthLengths == <<31, 29, 31, 30, 31>>

RECURSIVE MonthStart(_)
\* the day number of the first day of month m
MonthStart(m) == IF m = 1 THEN 0 ELSE MonthStart(m - 1) + MonthLengths[m - 1]

\* the month a day lies in
MonthOf(day) ==
    CHOOSE m \in 1..Len(MonthLengths) :
        MonthStart(m) <= day /\ day < MonthStart(m) + MonthLengths[m]

\* the days start_date and end_date are drawn from: first, middle and last
\* days of months
SipDays == {0, 14, 31, 59, 60, 75, 91}

\* the days and prices of the entries of a series
SipEntryDays == {0, 14, 31, 45, 60, 91}
SipNavs == {100, 125}

\* the series fetch_nav_history can hand over: rows in date order (equal
\* dates allowed) with positive prices
SipSeries ==
    {None} \cup
    {Frame(rows) :
        rows \in UNION {{r \in [1..n -> [date : SipEntryDays, nav : SipNavs]] :
                            \A i \in 1..(n - 1) : r[i].date <= r[i + 1].date} :
                        n \in 0..MaxSipRows}}

\* a schedule that starts at start_date itself
StartMonth_unaligned(start_date) == start_date

\* start_date.replace(day=1)
StartMonth(start_date) == MonthStart(MonthOf(start_date))

\* pd.date_range(start=start_month, end=end_date, freq="MS"): the month
\* starts from start_month to end_date, in order
MonthStarts(start_month, end_date) ==
    SelectSeq([m \in 1..Len(MonthLengths) |-> MonthStart(m)],
              LAMBDA ms : ms >= start_month /\ ms <= end_date)

\* datetime(year, month, SIP_DAY), or the last day of the month when the
\* month has no such day
Candidate(ms) ==
    IF SIP_DAY <= MonthLengths[MonthOf(ms)]
    THEN ms + SIP_DAY - 1
    ELSE ms + MonthLengths[MonthOf(ms)] - 1

\* the loop building sip_dates
SipDates(start_date, end_date) ==
    LET months == MonthStarts(StartMonth(start_date), end_date)
    IN  SelectSeq([i \in 1..Len(months) |-> Candidate(months[i])],
                  LAMBDA candidate : candidate <= end_date)

\* a selection that leaves out the entry dated on the contribution day
Sel_after(rows, d) == SelectSeq(rows, LAMBDA r : r.date > d)

\* nav_df[nav_df.index >= d]
Sel(rows, d) == SelectSeq(rows, LAMBDA r : r.date >= d)

RECURSIVE Invest(_, _, _)
\* the loop over sip_dates, filling units, cashflows and dates.
\* SIP_AMOUNT / nav is a float division; the prices of SipNavs divide
\* SIP_AMOUNT, so the quotient is the exact integer.
Invest(rows, ds, acc) ==
    IF ds = <<>> THEN acc
    ELSE LET df_sel == Sel(rows, Head(ds))
         IN  IF df_sel = <<>> THEN Invest(rows, Tail(ds), acc)
             ELSE IF df_sel[1].nav <= 0 THEN Invest(rows, Tail(ds), acc)
             ELSE Invest(rows, Tail(ds),
                         [units |-> Append(acc.units,
                                           SIP_AMOUNT \div df_sel[1].nav),
                          cashflows |-> Append(acc.cashflows, 0 - SIP_AMOUNT),
                          dates |-> Append(acc.dates, df_sel[1].date)])

RECURSIVE SumSeq(_)
SumSeq(q) == IF q = <<>> THEN 0 ELSE Head(q) + SumSeq(Tail(q))

\* a redemption at the first price of the series
LatestNav_first(rows) == rows[1].nav

\* float(nav_df["nav"].iloc[-1])
LatestNav(rows) == rows[Len(rows)].nav

\* a check that never finds the list empty
NoUnits_never(units) == FALSE

\* `if not units`
NoUnits(units) == units = <<>>

\* a total that counts one contribution too many
TotalInvested_plus(units) == (Len(units) + 1) * SIP_AMOUNT

\* total_invested = len(units) * SIP_AMOUNT
TotalInvested(units) == Len(units) * SIP_AMOUNT

\* the end of simulate_sip: the infeasible outcome, or the totals with the
\* redemption appended.  sip_dates and units are the locals at the return.
Redeem(rows, sip_dates, acc, current_value) ==
    IF NoUnits(acc.units)
    THEN [st |-> "done", ret |-> None, sip_dates |-> sip_dates,
          units |-> acc.units]
    ELSE [st |-> "done",
          ret |-> [st |-> "sim",
                   total_invested |-> TotalInvested(acc.units),
                   current_value |-> current_value,
                   dates |-> Append(acc.dates, rows[Len(rows)].date),
                   cashflows |-> Append(acc.cashflows, current_value)],
          sip_dates |-> sip_dates, units |-> acc.units]

\* the part of simulate_sip after sip_dates is built
Execute(rows, sip_dates, acc) ==
    Redeem(rows, sip_dates, acc, SumSeq(acc.units) * LatestNav(rows))

\* simulate_sip(nav_df, start_date, end_date)
simulate_sip(nav_df, start_date, end_date) ==
    IF nav_df.st # "df" \/ nav_df.rows = <<>>
    THEN [st |-> "done", ret |-> None, sip_dates |-> <<>>, units |-> <<>>]
    ELSE Execute(nav_df.rows, SipDates(start_date, end_date),
                 Invest(nav_df.rows, SipDates(start_date, end_date),
                        [units |-> <<>>, cashflows |-> <<>>, dates |-> <<>>]))

InitSip ==
    /\ sip \in [nav_df : SipSeries, start_date : SipDays, end_date : SipDays]
    /\ sim = Idle
    /\ IdleFetch /\ IdleReturns /\ IdleBatch /\ IdleApi /\ IdleXirr
    /\ IdleStats

\* one call simulate_sip(nav_df, start_date, end_date)
SimulateSip ==
    /\ sim = Idle
    /\ sim' = simulate_sip(sip.nav_df, sip.start_date, sip.end_date)
    /\ UNCHANGED <<sip, fetchVars, returnVars, batchVars, apiVars, xirrVars, statsVars>>

NextSip == SimulateSip

SpecSip == InitSip /\ [][NextSip]_vars

\* the call ran on a non-empty series
SipRan == sim.st = "done" /\ sip.nav_df.st = "df" /\ sip.nav_df.rows # <<>>

\* the series has an entry dated on or after d
HasEntry(rows, d) == \E i \in 1..Len(rows) : rows[i].date >= d

\* the first entry of the series dated on or after d
FirstOnOrAfter(rows, d) ==
    rows[CHOOSE i \in 1..Len(rows) :
             /\ rows[i].date >= d
             /\ \A j \in 1..(i - 1) : rows[j].date < d]

\* C17: each contribution date d is executed at the price of the first
\* series entry dated on or after d, and the cash flow recorded for it is
\* -SIP_AMOUNT dated at that entry; a contribution date with no entry on or
\* after it adds no units and no cash flow.
C17_ExecutedAtFirstEntryOnOrAfter ==
    SipRan =>
        LET rows == sip.nav_df.rows
            executed == SelectSeq(sim.sip_dates, LAMBDA d : HasEntry(rows, d))
        IN  /\ Len(sim.units) = Len(executed)
            /\ sim.ret # None =>
                  /\ Len(sim.ret.cashflows) = Len(executed) + 1
                  /\ Len(sim.ret.dates) = Len(executed) + 1
                  /\ \A j \in 1..Len(executed) :
                        /\ sim.units[j] * FirstOnOrAfter(rows, executed[j]).nav
                               = SIP_AMOUNT
                        /\ sim.ret.dates[j]
                               = FirstOnOrAfter(rows, executed[j]).date
                        /\ sim.ret.cashflows[j] = 0 - SIP_AMOUNT

C17_Witness ==
    /\ SipRan
    /\ sim.ret # None
    /\ \E i \in 1..Len(sim.sip_dates) :
          ~HasEntry(sip.nav_df.rows, sim.sip_dates[i])
    /\ \E i \in 1..Len(sim.sip_dates) :
          /\ HasEntry(sip.nav_df.rows, sim.sip_dates[i])
          /\ FirstOnOrAfter(sip.nav_df.rows, sim.sip_dates[i]).date
                > sim.sip_dates[i]

\* the contribution days of a window: the first day of every month from the
\* month of start_date on that is not later than end_date
WindowDays(start_date, end_date) ==
    {MonthStart(m) : m \in {n \in 1..Len(MonthLengths) :
                               /\ n >= MonthOf(start_date)
                               /\ MonthStart(n) <= end_date}}

\* C18: the outcome is the infeasible one (None, None, None, None) exactly
\* when the series is None or empty or no contribution date of the window
\* has a series entry on or after it; every other outcome is a schedule
\* with at least one contribution.
C18_InfeasibleIffNoContribution ==
    sim.st = "done" =>
        /\ sim.ret = None <=>
              \/ sip.nav_df.st # "df"
              \/ sip.nav_df.rows = <<>>
              \/ \A d \in WindowDays(sip.start_date, sip.end_date) :
                     ~HasEntry(sip.nav_df.rows, d)
        /\ sim.ret # None =>
              /\ sim.ret.total_invested >= SIP_AMOUNT
              /\ Len(sim.ret.cashflows) >= 2

C18_Witness ==
    /\ SipRan
    /\ sim.ret = None
    /\ WindowDays(sip.start_date, sip.end_date) # {}

RECURSIVE UnitsBought(_, _)
\* the units bought on a set of contribution days
UnitsBought(rows, days) ==
    IF days = {} THEN 0
    ELSE LET d == CHOOSE x \in days : TRUE
         IN  SIP_AMOUNT \div FirstOnOrAfter(rows, d).nav
                 + UnitsBought(rows, days \ {d})

\* C19: in every feasible result the terminal value is the sum over the
\* executed contributions of SIP_AMOUNT / execution price, times the last
\* price of the whole series; it is the final cash flow and is dated at the
\* last date of the series, also when end_date is earlier than that date.
C19_TerminalValueAtSeriesEnd ==
    (sim.st = "done" /\ sim.ret # None) =>
        LET rows == sip.nav_df.rows
            days == {d \in WindowDays(sip.start_date, sip.end_date) :
                        HasEntry(rows, d)}
            n == Len(sim.ret.cashflows)
        IN  /\ sim.ret.current_value
                  = UnitsBought(rows, days) * rows[Len(rows)].nav
            /\ sim.ret.cashflows[n] = sim.ret.current_value
            /\ Len(sim.ret.dates) = n
            /\ sim.ret.dates[n] = rows[Len(rows)].date

C19_Witness ==
    /\ sim.st = "done"
    /\ sim.ret # None
    /\ sip.end_date < sip.nav_df.rows[Len(sip.nav_df.rows)].date
    /\ sip.nav_df.rows[1].nav # sip.nav_df.rows[Len(sip.nav_df.rows)].nav
    /\ Len(sim.units) >= 2

\* C20: exactly one contribution date is scheduled for every calendar month
\* from the month of start_date through end_date, on the 1st; no
\* contribution date is later than end_date or earlier than the first day
\* of start_date's month.
C20_OneContributionPerMonth ==
    SipRan =>
        /\ \A m \in 1..Len(MonthLengths) :
              (m >= MonthOf(sip.start_date) /\ MonthStart(m) <= sip.end_date)
                  => /\ Cardinality({i \in 1..Len(sim.sip_dates) :
                               MonthOf(sim.sip_dates[i]) = m}) = 1
                     /\ \E i \in 1..Len(sim.sip_dates) :
                           sim.sip_dates[i] = MonthStart(m)
        /\ \A i \in 1..Len(sim.sip_dates) :
              /\ sim.sip_dates[i] <= sip.end_date
              /\ sim.sip_dates[i] >= MonthStart(MonthOf(sip.start_date))

C20_Witness ==
    /\ SipRan
    /\ Len(sim.sip_dates) >= 2
    /\ sip.start_date # MonthStart(MonthOf(sip.start_date))
    /\ sip.end_date # MonthStart(MonthOf(sip.end_date))

\* C30: every feasible schedule is n >= 1 outflows of exactly -SIP_AMOUNT
\* followed by one positive inflow as its last entry; its dates never
\* decrease (two contributions may share a date); total_invested is
\* n * SIP_AMOUNT.
C30_ScheduleShape ==
    (sim.st = "done" /\ sim.ret # None) =>
        LET n == Len(sim.ret.cashflows) - 1
        IN  /\ n >= 1
            /\ Len(sim.ret.dates) = n + 1
            /\ \A i \in 1..n : sim.ret.cashflows[i] = 0 - SIP_AMOUNT
            /\ sim.ret.cashflows[n + 1] > 0
            /\ \A i \in 1..n : sim.ret.dates[i] <= sim.ret.dates[i + 1]
            /\ sim.ret.total_invested = n * SIP_AMOUNT

C30_Witness ==
    /\ sim.st = "done"
    /\ sim.ret # None
    /\ Len(sim.ret.cashflows) >= 3
    /\ sim.ret.dates[1] = sim.ret.dates[2]
    /\ sim.sip_dates[1] # sim.sip_dates[2]

(***************************************************************************)
(* periodic_return.py: xirr                                                *)
(*                                                                         *)
(* xirr computes in floats.  A float is tracked as the exact fraction n/d  *)
(* while every integer of its computation stays within MaxExact; a value   *)
(* the model does not track (an irrational or complex power, a fraction    *)
(* too long) is Inexact, and a step computed from Inexact values may end   *)
(* in each of the ways float arithmetic can end.                           *)
(***************************************************************************)
\* the integers fractions are tracked with
MaxExact == 2 ^ 30

Abs(a) == IF a < 0 THEN 0 - a ELSE a

\* the value of an expression, computed once: the element of a one-element
\* set
Val(S) == CHOOSE v \in S : TRUE

RECURSIVE GCD(_, _)
GCD(a, b) == IF b = 0 THEN a ELSE Val({GCD(b, r) : r \in {a % b}})

\* a * b stays within MaxExact
Fit(a, b) == a = 0 \/ b = 0 \/ Abs(a) <= MaxExact \div Abs(b)

\* the fraction n/d (d > 0) in lowest terms
Q(n, d) ==
    Val({[st |-> "q", n |-> n \div g, d |-> d \div g] : g \in {GCD(Abs(n), d)}})

Inexact == [st |-> "inexact"]

\* the result of an operation one of whose operands is no fraction: the
\* exception if one was raised, an untracked float otherwise
NoFraction(x, y) ==
    IF x.st = "raise" THEN x ELSE IF y.st = "raise" THEN y ELSE Inexact

\* x * y for values x and y
Times(x, y) ==
    IF x.st # "q" \/ y.st # "q" THEN NoFraction(x, y)
    ELSE LET g1 == GCD(Abs(x.n), y.d)
             g2 == GCD(Abs(y.n), x.d)
         IN  IF Fit(x.n \div g1, y.n \div g2) /\ Fit(x.d \div g2, y.d \div g1)
             THEN Q((x.n \div g1) * (y.n \div g2), (x.d \div g2) * (y.d \div g1))
             ELSE Inexact

\* x * y
QMul(a, b) == Val({Times(x, y) : x \in {a}, y \in {b}})

\* x + y for values x and y
Plus(x, y) ==
    IF x.st # "q" \/ y.st # "q" THEN NoFraction(x, y)
    ELSE LET g == GCD(x.d, y.d)
             m1 == y.d \div g
             m2 == x.d \div g
         IN  IF /\ Fit(x.n, m1) /\ Fit(y.n, m2) /\ Fit(x.d, m1)
                /\ Abs(x.n * m1) <= MaxExact - Abs(y.n * m2)
             THEN Q(x.n * m1 + y.n * m2, x.d * m1)
             ELSE Inexact

\* x + y
QAdd(a, b) == Val({Plus(x, y) : x \in {a}, y \in {b}})

\* -x
QNeg(a) == Val({IF x.st = "q" THEN [x EXCEPT !.n = 0 - x.n] ELSE x : x \in {a}})

\* x - y
QSub(x, y) == QAdd(x, QNeg(y))

\* x / y for values x and y: a float division by 0.0 raises
\* ZeroDivisionError
Over(x, y) ==
    IF x.st = "raise" THEN x
    ELSE IF y.st = "raise" THEN y
    ELSE IF y.st = "q" /\ y.n = 0 THEN Raised("ZeroDivisionError")
    ELSE IF x.st # "q" \/ y.st # "q" THEN Inexact
    ELSE QMul(x, [st |-> "q",
                  n |-> IF y.n < 0 THEN 0 - y.d ELSE y.d, d |-> Abs(y.n)])

\* x / y
QDiv(a, b) == Val({Over(x, y) : x \in {a}, y \in {b}})

RECURSIVE QPow(_, _)
\* x ** e for a whole e >= 0
QPow(x, e) == IF e = 0 THEN Q(1, 1) ELSE QMul(x, QPow(x, e - 1))

\* x ** (days / 365.0 + more): 0.0 ** 0.0 is 1.0 and 0.0 ** e is 0.0 for
\* e > 0; a power to a whole number of years is a product; every other
\* power is irrational, or complex for x < 0
Power(x, days, more) ==
    IF x.st # "q" THEN x
    ELSE IF x.n = 0 THEN (IF days = 0 /\ more = 0 THEN Q(1, 1) ELSE Q(0, 1))
    ELSE IF days % 365 = 0 THEN QPow(x, days \div 365 + more)
    ELSE Inexact

Pow(a, days, more) == Val({Power(x, days, more) : x \in {a}})

RECURSIVE npv(_, _, _)
\* npv(rate): sum of cf / (1 + rate) ** ((d - dates[0]).days / 365.0) over
\* the flows from the i-th on
npv(fs, rate, i) ==
    IF i > Len(fs) THEN Q(0, 1)
    ELSE QAdd(QDiv(Q(fs[i].cf, 1),
                   Pow(QAdd(Q(1, 1), rate), fs[i].day - fs[1].day, 0)),
              npv(fs, rate, i + 1))

RECURSIVE Derivative(_, _, _)
\* f_derivative: sum of -cf * years / (1 + rate) ** (years + 1)
Derivative(fs, rate, i) ==
    IF i > Len(fs) THEN Q(0, 1)
    ELSE QAdd(QDiv(QMul(Q(0 - fs[i].cf, 1), Q(fs[i].day - fs[1].day, 365)),
                   Pow(QAdd(Q(1, 1), rate), fs[i].day - fs[1].day, 1)),
              Derivative(fs, rate, i + 1))

\* the default of the parameter guess: 0.1
Guess == Q(1, 10)

\* an iteration cap one above the loop's
MaxIterations_more == 200 + 1

\* range(200)
MaxIterations == 200

\* abs(x) < 1e-8 for a fraction x
BelowTolerance(x) == Abs(x.n) <= (x.d - 1) \div 100000000

\* the k-th rate computed, when it is a float the model does not track
Estimate(k) == [st |-> "estimate", k |-> k]

\* `return rate` of line 54: the value returned when
\* abs(new_rate - rate) < 1e-8
Converged(rate, new_rate) == rate

\* the ways one pass of the loop can end when its arithmetic is tracked:
\* f_value and f_derivative are fractions, k is the number of the pass
TrackedPass(rate, f_value, f_derivative, new_rate, k) ==
    IF f_derivative.n = 0 THEN {[kind |-> "break"]}
    ELSE IF new_rate.st # "q"
         THEN {[kind |-> "converged", new_rate |-> Estimate(k),
                ret |-> Converged(rate, Estimate(k))],
               [kind |-> "step", new_rate |-> Estimate(k)]}
    ELSE IF BelowTolerance(QSub(new_rate, rate))
         THEN {[kind |-> "converged", new_rate |-> new_rate,
                ret |-> Converged(rate, new_rate)]}
    ELSE {[kind |-> "step", new_rate |-> new_rate]}

\* the ways a pass can end when the rate is tracked (and is not -1) but its
\* sums are not: the floats are finite and no divisor is 0.0, so the pass
\* finds the derivative 0, finds the step 0 or below 1e-8, or goes on
RoundedPass(rate, k) ==
    {[kind |-> "break"],
     [kind |-> "converged", new_rate |-> rate,
      ret |-> Converged(rate, rate)],
     [kind |-> "converged", new_rate |-> Estimate(k),
      ret |-> Converged(rate, Estimate(k))],
     [kind |-> "step", new_rate |-> Estimate(k)]}

\* the ways a pass can end when the rate itself is not tracked: as above,
\* or ** overflows (OverflowError), or 1 + rate is 0.0 and the division
\* raises ZeroDivisionError
UntrackedPass(rate, k) ==
    {[kind |-> "raise", exc |-> "OverflowError"],
     [kind |-> "raise", exc |-> "ZeroDivisionError"]} \cup RoundedPass(rate, k)

\* the ways a pass that computed f_value and f_derivative ends
PassWith(rate, f_value, f_derivative, k) ==
    IF f_value.st = "raise" THEN {[kind |-> "raise", exc |-> f_value.exc]}
    ELSE IF f_derivative.st = "raise"
         THEN {[kind |-> "raise", exc |-> f_derivative.exc]}
    ELSE IF f_derivative.st = "q" /\ f_derivative.n = 0
         THEN {[kind |-> "break"]}
    ELSE IF f_value.st # "q" \/ f_derivative.st # "q"
         THEN RoundedPass(rate, k)
    ELSE UNION {TrackedPass(rate, f_value, f_derivative, new_rate, k) :
                   new_rate \in {QSub(rate, Over(f_value, f_derivative))}}

\* one pass of the loop body (lines 44-55) from the given rate
Pass(fs, rate, k) ==
    IF rate.st # "q" THEN UntrackedPass(rate, k)
    ELSE UNION {PassWith(rate, f_value, f_derivative, k) :
                   f_value \in {npv(fs, rate, 1)},
                   f_derivative \in {Derivative(fs, rate, 1)}}

\* the most contributions of a schedule handed to xirr
MaxContributions == 2

\* the days of the cash flows and the terminal values
XirrDays == {0, 31, 365}
XirrValues == {5500, 8000, 11000, 12000}

\* the schedules simulate_sip hands over: contributions of -SIP_AMOUNT on
\* non-decreasing days, then the terminal value on the last day of the series
XirrSchedules ==
    UNION {{f \in [1..(n + 1) -> [cf : {0 - SIP_AMOUNT} \cup XirrValues,
                                  day : XirrDays]] :
                /\ \A i \in 1..n : f[i].cf = 0 - SIP_AMOUNT
                /\ f[n + 1].cf > 0
                /\ \A i \in 1..n : f[i].day <= f[i + 1].day} :
           n \in 1..MaxContributions}

InitXirr ==
    /\ flows \in XirrSchedules
    /\ irr = [pc |-> "loop", it |-> 0, rate |-> Guess, new_rate |-> None,
              ret |-> None, exc |-> ""]
    /\ IdleFetch /\ IdleReturns /\ IdleBatch /\ IdleApi /\ IdleSip
    /\ IdleStats

\* the state after a pass that ended as `o`
AfterPass(x, o) ==
    CASE o.kind = "raise" ->
            [x EXCEPT !.pc = "raised", !.it = @ + 1, !.exc = o.exc]
      [] o.kind = "break" ->
            [x EXCEPT !.pc = "break", !.it = @ + 1]
      [] o.kind = "converged" ->
            [x EXCEPT !.pc = "converged", !.it = @ + 1,
                      !.new_rate = o.new_rate, !.ret = o.ret]
      [] o.kind = "step" ->
            [x EXCEPT !.it = @ + 1, !.rate = o.new_rate,
                      !.new_rate = o.new_rate]

\* one pass of `for _ in range(200)`
XirrIterate ==
    /\ irr.pc = "loop"
    /\ irr.it < MaxIterations
    /\ \E o \in Pass(flows, irr.rate, irr.it + 1) : irr' = AfterPass(irr, o)
    /\ UNCHANGED <<flows, fetchVars, returnVars, batchVars, apiVars, sipVars,
                   statsVars>>

\* `return rate` of line 56, after `break` or after the last pass
XirrReturn ==
    /\ \/ irr.pc = "break"
       \/ irr.pc = "loop" /\ irr.it >= MaxIterations
    /\ irr' = [irr EXCEPT !.pc = IF irr.pc = "break" THEN "stopped"
                                 ELSE "exhausted",
                          !.ret = irr.rate]
    /\ UNCHANGED <<flows, fetchVars, returnVars, batchVars, apiVars, sipVars,
                   statsVars>>

NextXirr == XirrIterate \/ XirrReturn

SpecXirr == InitXirr /\ [][NextXirr]_vars

\* the interpreter keeps running the call until it ends
SpecXirrLive == SpecXirr /\ WF_vars(NextXirr)

\* xirr is over: it returned (after convergence, after break, after the
\* last pass) or an exception left it
XirrReturned == irr.pc \in {"converged", "stopped", "exhausted"}
XirrOver == XirrReturned \/ irr.pc = "raised"

C22_ReturnsNewerEstimate == irr.pc = "converged" => irr.ret = irr.new_rate

\* C23: xirr never raises: with a zero derivative it stops and returns the
\* current estimate, and in every other case, an estimate of -1 or below
\* included, it returns an estimate after at most 200 passes.
C23_NeverRaises ==
    /\ irr.pc # "raised"
    /\ irr.pc = "stopped" => irr.ret = irr.rate
    /\ irr.it <= 200

(***************************************************************************)
(* database.py: the Database singleton DB                                  *)
(***************************************************************************)
\* the methods class Database defines
DatabaseMethods ==
    {"connect", "ensure_connection_alive", "close", "init_db",
     "upsert_metadata", "get_schemes_from_db", "get_filter_cache",
     "upsert_filter_cache", "get_top_performers", "count_metadata",
     "get_precomputed_return_json"}

\* hasattr(DB, name)
hasattr_DB(name) == name \in DatabaseMethods

\* DB_AVAILABLE as set when periodic_api is imported, and what a write to
\* the database does (it succeeds, or fails with a closed connection or with
\* another error)
DatabaseStates ==
    [available : BOOLEAN, upsert : {"ok", "closed", "error"}]

\* the columns of fund_returns as init_db creates the table
FundReturnsColumns ==
    {"scheme_code", "scheme_name", "type", "plan", "option", "updated_at",
     "results_json"}

\* the columns get_precomputed_return_json selects
SelectedColumns ==
    {"scheme_code", "scheme_name", "results_json", "updated_at",
     "return_1m", "return_3m", "return_6m", "return_1y",
     "return_3y", "return_5y", "return_7y", "return_10y"}

\* DB.get_precomputed_return_json(scheme_code): the row, None when there is
\* none, or an error raised by the query (a column the table lacks)
get_precomputed_return_json(rows, columns, scheme_code) ==
    IF ~(SelectedColumns \subseteq columns)
    THEN [st |-> "raise"]
    ELSE rows[scheme_code]

(***************************************************************************)
(* /api/precompute_all                                                     *)
(***************************************************************************)
\* the parameters fetch_nav_history accepts
FetchParameters == {"amfi_code"}

\* the provider's reply for a code with a usable history, and two failures
UsableReply ==
    [kind |-> "http", status |-> 200, hasData |-> TRUE,
     data |-> <<[date |-> [fmt |-> "dmy", day |-> 1],
                 nav |-> [kind |-> "num", val |-> 5]]>>]
NotFoundReply ==
    [kind |-> "http", status |-> 404, hasData |-> FALSE, data |-> <<>>]
TimeoutReply ==
    [kind |-> "timeout", status |-> 0, hasData |-> FALSE, data |-> <<>>]

\* a call fetch_nav_history(code, **kwargs) as a caller sees it: binding an
\* argument the function does not accept raises TypeError before its body
\* runs; otherwise the function's own outcome for the provider's reply
CallFetch(reply_, kwargs) ==
    IF ~(kwargs \subseteq FetchParameters)
    THEN [out |-> "raise", exc |-> "TypeError", df |-> None]
    ELSE LET r == CHOOSE x \in fetch_nav_history(reply_) : TRUE
         IN  [out |-> IF r.st = "df" THEN "df" ELSE "empty", exc |-> "", df |-> r]

\* a retry loop that runs once more
RetryAttempts_extra == 3 + 1

\* range(3): the attempts of the retry loop
RetryAttempts == 3

\* a backoff that doubles with every attempt
Backoff_doubling(exc, attempt) ==
    IF exc = "Timeout" THEN 3 * (2 ^ attempt) ELSE 2 * (2 ^ attempt)

\* wait_time after the failed attempt number `attempt` (from 0)
Backoff(exc, attempt) ==
    IF exc = "Timeout" THEN 3 * (attempt + 1) ELSE 2 * (attempt + 1)

RECURSIVE RetryLoop(_, _)
\* the loop `for attempt in range(3)` from `attempt` on: the tries made, each
\* with its outcome and the wait slept after it (0: none, the loop broke)
RetryLoop(reply_, attempt) ==
    IF attempt >= RetryAttempts THEN <<>>
    ELSE LET r == CallFetch(reply_, {"amfi_code", "session"})
         IN  IF r.out = "df"
             THEN <<[out |-> "df", exc |-> "", wait |-> 0, df |-> r.df]>>
             ELSE <<[out |-> r.out, exc |-> r.exc,
                     wait |-> Backoff(r.exc, attempt), df |-> None]>>
                  \o RetryLoop(reply_, attempt + 1)

\* a failed list that forgets the entry
RecordFailed_lost(failed, entry) == failed

\* failed.append(entry)
RecordFailed(failed, entry) == Append(failed, entry)

\* a failure branch that falls through to `processed += 1`
Continue_fallthrough(processed) == processed + 1

\* `continue` of line 702: the rest of the body, `processed += 1` included,
\* is skipped
Continue(processed) == processed

\* the rest of the body of `for code in sub_codes` once the retry loop has
\* made its tries: whether results were computed, and what the code adds to
\* processed and to failed
AfterRetries(code, tries, dbase) ==
    LET res == IF tries # <<>> /\ tries[Len(tries)].out = "df"
               THEN calculate_periodic_returns(tries[Len(tries)].df) ELSE None
    IN  IF res = None
        THEN [code |-> code, tries |-> tries, computed |-> FALSE,
              processed |-> Continue(0),
              failed |-> RecordFailed(<<>>,
                           [code |-> code, why |-> "no NAV after retries"])]
        ELSE IF dbase.available /\ hasattr_DB("upsert_fund_results_json")
                /\ dbase.upsert # "ok"
        THEN [code |-> code, tries |-> tries, computed |-> TRUE,
              processed |-> 1,
              failed |-> RecordFailed(<<>>,
                           [code |-> code, why |-> "db upsert failed"])]
        ELSE [code |-> code, tries |-> tries, computed |-> TRUE,
              processed |-> 1, failed |-> <<>>]

\* the body of `for code in sub_codes` for one code
ProcessCode(code, reply_, dbase) ==
    AfterRetries(code, RetryLoop(reply_, 0), dbase)

RECURSIVE ProcessBatch(_, _, _, _)
\* the loops over the mini-batches and their codes, for the first k codes
ProcessBatch(batch_codes, k, replies, dbase) ==
    IF k = 0 THEN <<>>
    ELSE Append(ProcessBatch(batch_codes, k - 1, replies, dbase),
                ProcessCode(batch_codes[k], replies[batch_codes[k]], dbase))

RECURSIVE ProcessedAfter(_, _)
\* processed after the first k codes of the batch
ProcessedAfter(done, k) ==
    IF k = 0 THEN 0 ELSE ProcessedAfter(done, k - 1) + done[k].processed

RECURSIVE FailedAfter(_, _)
\* failed after the first k codes of the batch
FailedAfter(done, k) ==
    IF k = 0 THEN <<>> ELSE FailedAfter(done, k - 1) \o done[k].failed

\* a slice that takes the element at end_index too
Slice_inclusive(list, start_index, end_index) ==
    [i \in 1..(Min(end_index + 1, Len(list)) - Min(start_index, Len(list))) |->
        list[Min(start_index, Len(list)) + i]]

\* list[start_index:end_index] for 0 <= start_index <= end_index
Slice(list, start_index, end_index) ==
    [i \in 1..(Min(end_index, Len(list)) - Min(start_index, Len(list))) |->
        list[Min(start_index, Len(list)) + i]]

\* the cap on the batch query parameter
BatchCap == 10

\* request.args.get("batch", 100): the batch of a request that sends none
DefaultBatch == 100

\* min(int(request.args.get("batch", 100)), 10)
BatchSize(batch) == Min(batch, BatchCap)

\* jsonify({...}) at the end of precompute_all, with the tries of each code
Summary(start_index, end_index, total_schemes, batch_codes, done, failed) ==
    [st |-> "summary",
     start |-> start_index,
     batch_codes |-> batch_codes,
     processed |-> ProcessedAfter(done, Len(done)),
     failed |-> failed,
     failed_count |-> Len(failed),
     next_start |-> IF end_index < total_schemes THEN end_index ELSE -1,
     remaining |-> Max(0, total_schemes - end_index),
     total_schemes |-> total_schemes,
     log |-> done]

\* the loops of precompute_all over the codes of its slice
RunBatch(start_index, end_index, batch_codes, done) ==
    Summary(start_index, end_index, Len(codes), batch_codes, done,
            FailedAfter(done, Len(done)))

\* the response of precompute_all(start, batch)
precompute_all(start_index, batch) ==
    LET end_index == start_index + BatchSize(batch)
        batch_codes == Slice(codes, start_index, end_index)
    IN  RunBatch(start_index, end_index, batch_codes,
                 ProcessBatch(batch_codes, Len(batch_codes), provider, db))

\* which codes the provider has a usable history for
ProviderPatterns == {"all", "none", "even"}

ProviderOf(pattern, n) ==
    [c \in 1..n |->
        CASE pattern = "all" -> UsableReply
          [] pattern = "none" -> NotFoundReply
          [] pattern = "even" ->
                IF c % 2 = 0 THEN UsableReply
                ELSE IF c % 3 = 0 THEN TimeoutReply ELSE NotFoundReply]

\* the dataset is loaded once; the client starts at start = 0
InitBatch ==
    /\ \E n \in 0..MaxCodes, pattern \in ProviderPatterns :
          /\ codes = [i \in 1..n |-> i]
          /\ provider = ProviderOf(pattern, n)
          /\ covered = [i \in 1..n |-> 0]
    /\ db \in DatabaseStates
    /\ cursor = [st |-> "next", start |-> 0, calls |-> 0, batch |-> 0]
    /\ summary = Idle
    /\ IdleFetch /\ IdleReturns /\ IdleApi /\ IdleSip /\ IdleXirr
    /\ IdleStats

\* one POST /api/precompute_all?start=<cursor>&batch=<batch>, or without the
\* batch parameter; the client keeps the response's next_start as its next
\* start (-1: None, finished) and the batch it asked for
PrecomputeAll ==
    /\ cursor.st = "next"
    /\ \E batch \in (1..MaxBatch) \cup {DefaultBatch} :
          /\ summary' = precompute_all(cursor.start, batch)
          /\ cursor' =
                IF summary'.next_start = -1
                THEN [st |-> "done", start |-> cursor.start,
                      calls |-> cursor.calls + 1, batch |-> batch]
                ELSE [st |-> "next", start |-> summary'.next_start,
                      calls |-> cursor.calls + 1, batch |-> batch]
    /\ covered' =
          [i \in DOMAIN covered |->
              covered[i] +
                Cardinality({k \in 1..Len(summary'.batch_codes) :
                                summary'.batch_codes[k] = codes[i]})]
    /\ UNCHANGED <<codes, provider, db, fetchVars, returnVars, apiVars,
                   sipVars, xirrVars, statsVars>>

NextBatch == PrecomputeAll

SpecBatch == InitBatch /\ [][NextBatch]_vars

(***************************************************************************)
(* /api/periodic_returns                                                   *)
(***************************************************************************)
\* a results mapping some earlier computation stored
StoredResults ==
    [h \in {"1Y"} |->
        [st |-> "num", start_nav |-> 5, end_nav |-> 7, days |-> 365]]

\* the rows a fund_returns table may hold for a code: none, one with a
\* results_json, one with legacy columns only, one with neither
StoredRows ==
    {None,
     [st |-> "row", results_json |-> StoredResults, return_1m |-> FALSE],
     [st |-> "row", results_json |-> <<>>, return_1m |-> TRUE],
     [st |-> "row", results_json |-> <<>>, return_1m |-> FALSE]}

\* the legacy columns of a row as a results mapping
LegacyResults == [h \in DOMAIN PERIODS |-> [st |-> "num"]]

\* a handler that never looks into the database
CachedReply_skipped(amfi_code, dbase, tbl) == None

\* step 1 of the handler: the reply served from the database, or None when
\* the handler goes on to compute
CachedReply(amfi_code, dbase, tbl) ==
    IF ~dbase.available THEN None
    ELSE IF ~hasattr_DB("get_precomputed_return_json") THEN None
    ELSE LET cached == get_precomputed_return_json(tbl.rows, tbl.columns,
                                                    amfi_code)
         IN  IF cached.st # "row" THEN None        \* raised, or no row
             ELSE IF cached.results_json # <<>>
             THEN [st |-> "ok", code |-> amfi_code, source |-> "cache",
                   results |-> cached.results_json]
             ELSE IF cached.return_1m
             THEN [st |-> "ok", code |-> amfi_code, source |-> "cache",
                   results |-> LegacyResults]
             ELSE None

\* step 3 of the handler: the table after the write, when there is one
StoreResults(amfi_code, res, dbase, tbl) ==
    IF dbase.available /\ hasattr_DB("upsert_fund_results_json")
       /\ dbase.upsert = "ok"
    THEN [tbl EXCEPT !.rows[amfi_code] =
            [st |-> "row", results_json |-> res, return_1m |-> FALSE]]
    ELSE tbl

\* steps 2 and 3 of the handler, given the outcome of fetch_nav_history
FreshReply(amfi_code, nav_df, dbase, tbl) ==
    IF nav_df.st # "df" \/ nav_df.rows = <<>>
    THEN [reply |-> [st |-> "error", code |-> amfi_code, source |-> "none",
                     results |-> <<>>],
          table |-> tbl]
    ELSE [reply |-> [st |-> "ok", code |-> amfi_code, source |-> "fresh",
                     results |-> calculate_periodic_returns(nav_df).map],
          table |-> StoreResults(amfi_code,
                                 calculate_periodic_returns(nav_df).map,
                                 dbase, tbl)]

\* the handler: its reply, the table after it, and whether it fetched
get_periodic_returns_api(amfi_code, cachedReply, dbase, tbl) ==
    IF cachedReply # None
    THEN [reply |-> cachedReply, table |-> tbl, fetched |-> FALSE]
    ELSE LET nav_df == CallFetch(provider[amfi_code], {"amfi_code"}).df
             fresh == FreshReply(amfi_code, nav_df, dbase, tbl)
         IN  [reply |-> fresh.reply, table |-> fresh.table, fetched |-> TRUE]

InitApi ==
    /\ provider \in [1..MaxApiCodes -> {UsableReply, NotFoundReply}]
    /\ db \in DatabaseStates
    /\ \E rows \in [1..MaxApiCodes -> StoredRows],
          legacy \in BOOLEAN :
          table = [rows |-> rows,
                   columns |-> IF legacy THEN FundReturnsColumns \cup SelectedColumns
                               ELSE FundReturnsColumns]
    /\ reply = Idle
    /\ log = [fetched |-> FALSE, wrote |-> FALSE]
    /\ history = [c \in 1..MaxApiCodes |-> <<>>]
    /\ codes = Idle /\ cursor = Idle /\ summary = Idle /\ covered = Idle
    /\ IdleFetch /\ IdleReturns /\ IdleSip /\ IdleXirr
    /\ IdleStats

\* one GET /api/periodic_returns?code=<amfi_code>
GetPeriodicReturns ==
    /\ \E amfi_code \in 1..MaxApiCodes :
          /\ Len(history[amfi_code]) < MaxRequests
          /\ LET out == get_periodic_returns_api(
                            amfi_code, CachedReply(amfi_code, db, table),
                            db, table)
             IN  /\ reply' = out.reply
                 /\ table' = out.table
                 /\ log' = [fetched |-> out.fetched, wrote |-> out.table # table]
                 /\ history' = [history EXCEPT
                                  ![amfi_code] = Append(@, out.reply)]
    /\ UNCHANGED <<provider, db, codes, cursor, summary, covered,
                   fetchVars, returnVars, sipVars, xirrVars, statsVars>>

NextApi == GetPeriodicReturns

SpecApi == InitApi /\ [][NextApi]_vars

\* the database is available and its reads and writes succeed
DatabaseWorks ==
    /\ db.available
    /\ db.upsert = "ok"
    /\ SelectedColumns \subseteq table.columns

\* C5: with the database available, results computed fresh for a code are
\* stored in the cache under that code, and the next request for the code
\* is answered from the cache with the same results.
C5_FreshResultsCached ==
    DatabaseWorks =>
        /\ (reply.st = "ok" /\ reply.source = "fresh") =>
              /\ table.rows[reply.code].st = "row"
              /\ table.rows[reply.code].results_json = reply.results
        /\ \A c \in 1..MaxApiCodes :
              \A i \in 1..(Len(history[c]) - 1) :
                  history[c][i].source = "fresh" =>
                      /\ history[c][i + 1].source = "cache"
                      /\ history[c][i + 1].results = history[c][i].results

\* the cache read of a request for the code succeeds
ReadSucceeds == db.available /\ SelectedColumns \subseteq table.columns

\* C26: when the cache read succeeds and holds a non-empty results_json for
\* the requested code, the response carries those results with source
\* "cache", the provider is not called and the cache is not written during
\* the request; a failing cache read is absorbed and the request goes on to
\* a fresh computation.
C26_CacheHitServedUntouched ==
    [][reply'.st # "idle" =>
          LET row == table.rows[reply'.code]
          IN  /\ (ReadSucceeds /\ row.st = "row" /\ row.results_json # <<>>) =>
                    /\ reply'.st = "ok"
                    /\ reply'.source = "cache"
                    /\ reply'.results = row.results_json
                    /\ ~log'.fetched
                    /\ table' = table
              /\ (db.available /\ ~ReadSucceeds) =>
                    /\ log'.fetched
                    /\ reply'.source \in {"fresh", "none"}
                    /\ reply'.source = "fresh" <=>
                          provider[reply'.code] = UsableReply]_vars

C26_Witness ==
    /\ ReadSucceeds
    /\ reply.st = "ok"
    /\ reply.source = "cache"
    /\ reply.results = StoredResults
    /\ ~log.fetched
    /\ ~log.wrote

Called == summary.st = "summary"

\* the positions of the codes in the slice of the last call
InBatch == 1..Len(summary.batch_codes)

\* the provider holds a non-empty usable history for the code
HasUsableHistory(code) ==
    provider[code].hasData /\ UsablePositions(provider[code].data) # {}

\* C3: a failure on one code never aborts the batch: every code of the slice
\* is still attempted, the call ends with the summary, and every code that
\* failed is in the failed list, whose size is failed_count.
C3_FailureNeverAborts ==
    Called =>
        /\ Len(summary.log) = Len(summary.batch_codes)
        /\ \A k \in InBatch :
              /\ summary.log[k].code = summary.batch_codes[k]
              /\ Len(summary.log[k].tries) >= 1
              /\ ~summary.log[k].computed =>
                    \E j \in 1..Len(summary.failed) :
                        summary.failed[j].code = summary.batch_codes[k]
        /\ summary.failed_count = Len(summary.failed)
        /\ summary.failed_count
              >= Cardinality({k \in InBatch : ~summary.log[k].computed})

\* the first code of a slice failed and the codes after it were attempted
C3_Witness ==
    /\ Called
    /\ Len(summary.batch_codes) >= 3
    /\ ~summary.log[1].computed
    /\ Len(summary.log[3].tries) >= 1
    /\ summary.failed_count >= 3

\* C4: calling with start = 0 and then with each response's next_start,
\* every code index falls in the slice of exactly one call; the chain ends
\* (next_start None, remaining 0) within total_schemes calls, at least one.
C4_PaginationCoversOnce ==
    /\ cursor.st = "next" =>
          /\ \A i \in 1..Len(codes) :
                covered[i] = IF i <= cursor.start THEN 1 ELSE 0
          /\ cursor.calls <= cursor.start
          /\ cursor.calls > 0 => cursor.start < Len(codes)
    /\ cursor.st = "done" =>
          /\ \A i \in 1..Len(codes) : covered[i] = 1
          /\ summary.next_start = -1
          /\ summary.remaining = 0
          /\ cursor.calls <= Max(1, Len(codes))

\* a chain of three or more calls, one of them capped, reached the end
C4_Witness ==
    /\ cursor.st = "done"
    /\ cursor.calls >= 3
    /\ Len(codes) > BatchCap
    /\ Len(summary.batch_codes) >= 2

\* C6: a code for which the provider returns a non-empty usable history has
\* its returns computed, is counted in processed and is not recorded as
\* failed with "no NAV after retries".
C6_UsableHistoryProcessed ==
    Called =>
        /\ \A k \in InBatch :
              HasUsableHistory(summary.batch_codes[k]) =>
                /\ summary.log[k].computed
                /\ ~\E j \in 1..Len(summary.failed) :
                      /\ summary.failed[j].code = summary.batch_codes[k]
                      /\ summary.failed[j].why = "no NAV after retries"
        /\ summary.processed
              >= Cardinality({k \in InBatch :
                                HasUsableHistory(summary.batch_codes[k])})

\* C7: at most 3 fetch attempts are made for a code, and none after an
\* attempt that returned a non-empty history.
C7_AtMostThreeAttempts ==
    Called =>
        \A k \in InBatch :
            /\ Len(summary.log[k].tries) <= 3
            /\ \A j \in 1..(Len(summary.log[k].tries) - 1) :
                  summary.log[k].tries[j].out # "df"

\* a code used up all three attempts
C7_Witness ==
    /\ Called
    /\ \E k \in InBatch :
          /\ Len(summary.log[k].tries) = 3
          /\ \A j \in 1..3 : summary.log[k].tries[j].out # "df"

\* C8: the waits after successive failed attempts of one code back off
\* exponentially: each is at least twice the one before, for the same kind
\* of failure.
C8_ExponentialBackoff ==
    Called =>
        \A k \in InBatch :
            \A j \in 1..(Len(summary.log[k].tries) - 1) :
                (/\ summary.log[k].tries[j].out # "df"
                 /\ summary.log[k].tries[j + 1].out # "df"
                 /\ summary.log[k].tries[j].exc = summary.log[k].tries[j + 1].exc)
                    => summary.log[k].tries[j + 1].wait
                         >= 2 * summary.log[k].tries[j].wait

\* C8 as amended: the waits grow linearly: the wait after the j-th failed
\* attempt is 2 * j seconds, 3 * j after a timeout.
C8_LinearBackoff ==
    Called =>
        \A k \in InBatch :
            \A j \in 1..Len(summary.log[k].tries) :
                summary.log[k].tries[j].out # "df" =>
                    summary.log[k].tries[j].wait
                      = j * (IF summary.log[k].tries[j].exc = "Timeout"
                             THEN 3 ELSE 2)

\* a code slept 2, 4 and 6 seconds after its three failed attempts
C8_Witness ==
    /\ Called
    /\ \E k \in InBatch :
          /\ Len(summary.log[k].tries) = 3
          /\ summary.log[k].tries[1].wait = 2
          /\ summary.log[k].tries[2].wait = 4
          /\ summary.log[k].tries[3].wait = 6

\* C24: one call processes the number of schemes its batch parameter gives,
\* 100 when the parameter is omitted, and fewer only when fewer codes remain
\* after start.
C24_BatchParameterHonoured ==
    Called =>
        Len(summary.batch_codes)
            = Min(cursor.batch, Len(codes) - summary.start)

SchemeRows ==
    {[AMC |-> "Axis", schemeCategory |-> "Equity",
      schemeSubCategory |-> "Large Cap", Plan |-> "Direct",
      Option |-> "Growth"],
     [AMC |-> "HDFC", schemeCategory |-> "Equity",
      schemeSubCategory |-> "Large Cap", Plan |-> "Regular",
      Option |-> "Growth"],
     [AMC |-> "HDFC", schemeCategory |-> "Debt",
      schemeSubCategory |-> "Liquid", Plan |-> "Direct",
      Option |-> "IDCW"],
     [AMC |-> "Axis", schemeCategory |-> "Other",
      schemeSubCategory |-> "Gold ETF", Plan |-> "Regular",
      Option |-> "ETF"],
     [AMC |-> "HDFC", schemeCategory |-> "Other",
      schemeSubCategory |-> "Index ETF", Plan |-> "Direct",
      Option |-> "Growth"]}

\* "ETF" if "ETF" in str(x).upper() else "Mutual Fund"
InstrumentType(schemeSubCategory) ==
    IF schemeSubCategory \in {"Gold ETF", "Index ETF"} THEN "ETF"
    ELSE "Mutual Fund"

\* str.lower() on the strings of the dataset and of the requests
Lower(str) ==
    CASE str = "Mutual Fund" -> "mutual fund"
      [] str = "ETF" -> "etf"
      [] str = "Direct" -> "direct"
      [] str = "Regular" -> "regular"
      [] str = "Growth" -> "growth"
      [] str = "IDCW" -> "idcw"
      [] OTHER -> str

\* the values of the type, plan and option parameters of a request; "" is a
\* parameter the request does not carry (type defaults to "Mutual Fund")
TypeParams == {"Mutual Fund", "ETF"}
PlanParams == {"", "direct", "Regular"}
OptionParams == {"", "growth", "IDCW"}

\* the rows of schemes_df left by the filters of lines 302-312
Filtered(rows, type_param, plan_param, option_param) ==
    {r \in rows :
        /\ IF Lower(type_param) = "etf"
           THEN /\ Lower(InstrumentType(r.schemeSubCategory)) = "etf"
                /\ Lower(r.Option) = "etf"
           ELSE Lower(InstrumentType(r.schemeSubCategory)) = "mutual fund"
        /\ (plan_param # "" /\ Lower(type_param) # "etf") =>
              Lower(r.Plan) = Lower(plan_param)
        /\ option_param # "" => Lower(r.Option) = Lower(option_param)}

\* the stats dictionary of lines 314-324 without its source; a sorted list
\* of unique values is the set of the values
Statistics(rows) ==
    [total |-> Cardinality(rows),
     mutual_funds |->
        Cardinality({r \in rows :
                        InstrumentType(r.schemeSubCategory) = "Mutual Fund"}),
     etfs |->
        Cardinality({r \in rows :
                        InstrumentType(r.schemeSubCategory) = "ETF"}),
     amcs |-> {r.AMC : r \in rows},
     categories |-> {r.schemeCategory : r \in rows},
     subcategories |-> {r.schemeSubCategory : r \in rows},
     plans |-> {r.Plan : r \in rows},
     options |-> {r.Option : r \in rows}]

\* the body of an /api/stats response
StatsResponse(stats, source) ==
    [st |-> "ok", total |-> stats.total,
     mutual_funds |-> stats.mutual_funds, etfs |-> stats.etfs,
     amcs |-> stats.amcs, categories |-> stats.categories,
     subcategories |-> stats.subcategories, plans |-> stats.plans,
     options |-> stats.options, source |-> source]

\* DB.get_filter_cache(type_): the row, None when there is none, or the
\* error of a statement executed on a closed connection
get_filter_cache(cache, type_, dbase) ==
    IF dbase.upsert = "closed" THEN [st |-> "raise"] ELSE cache[type_]

\* DB.upsert_filter_cache(type_, data) inside the try of lines 327-332: the
\* table after it, unchanged when the statement fails
upsert_filter_cache(cache, type_, data, dbase) ==
    IF dbase.upsert = "ok"
    THEN [cache EXCEPT ![type_] =
            [st |-> "row", total |-> data.total,
             mutual_funds |-> data.mutual_funds, etfs |-> data.etfs,
             amcs |-> data.amcs, categories |-> data.categories,
             subcategories |-> data.subcategories, plans |-> data.plans,
             options |-> data.options]]
    ELSE cache

\* get_stats once the cache has been read: the response and the table
StatsWith(cached, type_param, plan_param, option_param, dbase, cache, rows) ==
    IF dbase.available /\ hasattr_DB("get_filter_cache") /\ cached.st = "row"
    THEN [resp |-> StatsResponse(cached, "db-cache"), cache |-> cache]
    ELSE [resp |-> StatsResponse(
                      Statistics(Filtered(rows, type_param, plan_param,
                                          option_param)), "fresh"),
          cache |->
             IF dbase.available /\ hasattr_DB("upsert_filter_cache")
             THEN upsert_filter_cache(
                      cache, type_param,
                      Statistics(Filtered(rows, type_param, plan_param,
                                          option_param)), dbase)
             ELSE cache]

\* get_stats for a request /api/stats?type=..&plan=..&option=..
get_stats(type_param, plan_param, option_param, dbase, cache, rows) ==
    StatsWith(get_filter_cache(cache, type_param, dbase),
              type_param, plan_param, option_param, dbase, cache, rows)

\* precache_filters: get_stats for /api/stats?type=Mutual Fund, then for
\* /api/stats?type=ETF, each on the table the one before left
precache_filters(dbase, cache, rows) ==
    IF ~(dbase.available /\ hasattr_DB("upsert_filter_cache"))
    THEN [resp |-> [st |-> "error", status |-> 400,
                    message |-> "DB filter cache helper not available"],
          cache |-> cache]
    ELSE [resp |-> [st |-> "ok", status |-> 200,
                    message |-> "filter cache refreshed"],
          cache |->
             get_stats("ETF", "", "", dbase,
                       get_stats("Mutual Fund", "", "", dbase, cache,
                                 rows).cache,
                       rows).cache]

\* filter_cache is created empty by init_db
InitStats ==
    /\ schemes \in SUBSET SchemeRows
    /\ db \in DatabaseStates
    /\ filter_cache = [t \in TypeParams |-> None]
    /\ answer = Idle
    /\ codes = Idle /\ provider = Idle /\ cursor = Idle
    /\ summary = Idle /\ covered = Idle
    /\ IdleFetch /\ IdleReturns /\ IdleApi /\ IdleSip /\ IdleXirr

\* one GET /api/stats
GetStats ==
    /\ \E type_param \in TypeParams, plan_param \in PlanParams,
          option_param \in OptionParams :
          LET out == get_stats(type_param, plan_param, option_param, db,
                               filter_cache, schemes)
          IN  /\ answer' = [st |-> "stats", type |-> type_param,
                            plan |-> plan_param, option |-> option_param,
                            resp |-> out.resp]
              /\ filter_cache' = out.cache
    /\ UNCHANGED <<schemes, batchVars, fetchVars, returnVars, apiVars,
                   sipVars, xirrVars>>

\* one POST /api/precache_filters
PrecacheFilters ==
    /\ LET out == precache_filters(db, filter_cache, schemes)
       IN  /\ answer' = [st |-> "precache", type |-> "", plan |-> "",
                         option |-> "", resp |-> out.resp]
           /\ filter_cache' = out.cache
    /\ UNCHANGED <<schemes, batchVars, fetchVars, returnVars, apiVars,
                   sipVars, xirrVars>>

NextStats == GetStats \/ PrecacheFilters

SpecStats == InitStats /\ [][NextStats]_vars

\* the statistics of a response or of a cache row, without source and kind
StatisticsOf(rec) ==
    [total |-> rec.total, mutual_funds |-> rec.mutual_funds,
     etfs |-> rec.etfs, amcs |-> rec.amcs, categories |-> rec.categories,
     subcategories |-> rec.subcategories, plans |-> rec.plans,
     options |-> rec.options]

\* C25: after /api/precache_filters answers "filter cache refreshed", the
\* filter-cache entry of each of "Mutual Fund" and "ETF" equals the
\* statistics freshly computed from the dataset for that type, whatever the
\* cache held before the call (stated for a database whose reads and writes
\* succeed).
C25_PrecacheRefreshes ==
    (/\ answer.st = "precache"
     /\ answer.resp.message = "filter cache refreshed"
     /\ db.upsert = "ok") =>
        \A t \in TypeParams :
            /\ filter_cache[t].st = "row"
            /\ StatisticsOf(filter_cache[t])
                 = Statistics(Filtered(schemes, t, "", ""))

\* C27: the /api/stats response for (type, plan, option) depends only on
\* those parameters and the dataset: it carries the statistics of the rows
\* the three parameters select, never those computed for another request's
\* plan or option.
C27_StatsDependOnParameters ==
    answer.st = "stats" =>
        StatisticsOf(answer.resp)
            = Statistics(Filtered(schemes, answer.type, answer.plan,
                                  answer.option))

Spec == SpecFetch
====
